---------------------------- MODULE Spec2Model ----------------------------
(***************************************************************************)
(* Model of the lead scraper (src/src/main.py): the workflow run           *)
(* (submit, poll, fetch, read, resolve, enrich, append), the resolver      *)
(* _filter_new_leads, the website scraper and the sheet service.           *)
(*                                                                         *)
(* Python strings are sequences of one-character strings, so that          *)
(* str.strip, str.lower, str.replace and str.startswith are computed.      *)
(* A Python value that may be None, or a dict key that may be absent, is   *)
(* a tagged record: None, Missing or Str(s).                               *)
(***************************************************************************)
EXTENDS Integers, Sequences, FiniteSets, TLC

(***************************************************************************)
(* Bounds of the model.                                                    *)
(***************************************************************************)
\* longest dataset (batch of scraped candidates) a run receives
MaxBatch == 2
\* most data rows the persisted sheet holds before the run
MaxRows == 1

(***************************************************************************)
(* Python values.                                                          *)
(***************************************************************************)
None == [t |-> "None"]

Missing == [t |-> "Missing"]

Str(s) == [t |-> "str", v |-> s]

EmptyStr == Str(<<>>)

\* truth value of an optional string: None and "" are falsy
Truthy(x) == x.t = "str" /\ x.v # <<>>

\* dict.get(key): None for an absent key
DictGet(d, k) == IF d[k] = Missing THEN None ELSE d[k]

\* dict.get(key, default)
DictGetDefault(d, k, dflt) == IF d[k] = Missing THEN dflt ELSE d[k]

\* x or ""
OrEmpty(x) == IF Truthy(x) THEN x ELSE EmptyStr

(***************************************************************************)
(* String functions.                                                       *)
(***************************************************************************)
Whitespace == {" ", "\t", "\n"}

UpperChars == <<"A", "B", "C", "D", "E", "F", "G", "H", "I", "J", "K", "L", "M",
                "N", "O", "P", "Q", "R", "S", "T", "U", "V", "W", "X", "Y", "Z">>

LowerChars == <<"a", "b", "c", "d", "e", "f", "g", "h", "i", "j", "k", "l", "m",
                "n", "o", "p", "q", "r", "s", "t", "u", "v", "w", "x", "y", "z">>

LowerChar(c) ==
    IF \E i \in DOMAIN UpperChars : UpperChars[i] = c
    THEN LowerChars[CHOOSE i \in DOMAIN UpperChars : UpperChars[i] = c]
    ELSE c

\* str.lower()
Lower(s) == [i \in DOMAIN s |-> LowerChar(s[i])]

RECURSIVE LStrip(_)
LStrip(s) ==
    IF s # <<>> /\ Head(s) \in Whitespace THEN LStrip(Tail(s)) ELSE s

RECURSIVE RStrip(_)
RStrip(s) ==
    IF s # <<>> /\ s[Len(s)] \in Whitespace
    THEN RStrip(SubSeq(s, 1, Len(s) - 1))
    ELSE s

\* str.strip()
Strip(s) == RStrip(LStrip(s))

\* str.replace(c, "") for a one-character c
RemoveChar(s, c) == SelectSeq(s, LAMBDA x : x # c)

\* str.startswith(prefix)
StartsWith(s, prefix) ==
    Len(s) >= Len(prefix) /\ SubSeq(s, 1, Len(prefix)) = prefix

\* the text before the first occurrence of a character
RECURSIVE Before(_, _)
Before(s, c) ==
    IF s = <<>> THEN <<>>
    ELSE IF Head(s) = c THEN <<>>
    ELSE <<Head(s)>> \o Before(Tail(s), c)

\* str.split(c) for a one-character c
RECURSIVE Pieces(_, _)
Pieces(s, c) ==
    IF Len(Before(s, c)) = Len(s) THEN <<s>>
    ELSE <<Before(s, c)>> \o Pieces(SubSeq(s, Len(Before(s, c)) + 2, Len(s)), c)

(***************************************************************************)
(* String constants of the program.                                        *)
(***************************************************************************)
NameH == <<"N", "a", "m", "e">>

PhoneH == <<"P", "h", "o", "n", "e">>

AddressH == <<"A", "d", "d", "r", "e", "s", "s">>

WebsiteH == <<"W", "e", "b", "s", "i", "t", "e">>

EmailH == <<"E", "m", "a", "i", "l">>

InstagramH == <<"I", "n", "s", "t", "a", "g", "r", "a", "m">>

FacebookH == <<"F", "a", "c", "e", "b", "o", "o", "k">>

LinkedInH == <<"L", "i", "n", "k", "e", "d", "I", "n">>

BusinessH == <<"B", "u", "s", "i", "n", "e", "s", "s">>

\* the header row append_leads writes to a sheet without one
DefaultHeaders ==
    <<NameH, PhoneH, AddressH, WebsiteH, EmailH, InstagramH, FacebookH, LinkedInH>>

\* scraped_to_sheet_map, as the scraped key of each sheet header
ScrapedKeyOf(h) ==
    CASE h = NameH -> "title"
      [] h = PhoneH -> "phone"
      [] h = AddressH -> "address"
      [] h = WebsiteH -> "website"
      [] h = EmailH -> "email"
      [] h = InstagramH -> "instagram"
      [] h = FacebookH -> "facebook"
      [] h = LinkedInH -> "linkedin"
      [] OTHER -> "none"

HttpScheme == <<"h", "t", "t", "p", ":", "/", "/">>

HttpsScheme == <<"h", "t", "t", "p", "s", ":", "/", "/">>

InstagramPrefix ==
    <<"h", "t", "t", "p", "s", ":", "/", "/", "i", "n", "s", "t", "a", "g", "r",
      "a", "m", ".", "c", "o", "m", "/">>

FacebookPrefix ==
    <<"h", "t", "t", "p", "s", ":", "/", "/", "f", "a", "c", "e", "b", "o", "o",
      "k", ".", "c", "o", "m", "/">>

LinkedinPrefix ==
    <<"h", "t", "t", "p", "s", ":", "/", "/", "l", "i", "n", "k", "e", "d", "i",
      "n", ".", "c", "o", "m", "/", "c", "o", "m", "p", "a", "n", "y", "/">>

(***************************************************************************)
(* LeadScraperWorkflow._clean_phone and _filter_new_leads.                 *)
(***************************************************************************)
\* phone.replace("+", "").replace(" ", "")
clean_phone(phone) == RemoveChar(RemoveChar(phone, "+"), " ")

\* ExistingLead: the declared fields of the pydantic model; a header of the
\* sheet that is not a declared field is ignored when a lead is built
ExistingLeadFields == {"Business", "Phone"}

\* the header text that populates each declared field (its alias)
ExistingLeadAlias(f) == IF f = "Business" THEN BusinessH ELSE PhoneH

\* attribute access on an object: AttributeError when it has no such field
HasAttr(obj, a) == a \in DOMAIN obj

\* {_clean_phone(lead.Phone) for lead in existing if lead.Phone is not None}
existing_phones_of(existing) ==
    { clean_phone(existing[i].Phone.v) :
        i \in {j \in DOMAIN existing : existing[j].Phone # None} }

\* the comprehension over lead.Name raises on the first lead without Name
existing_names_raises(existing) ==
    \E i \in DOMAIN existing : ~HasAttr(existing[i], "Name")

\* {lead.Name.strip().lower() for lead in existing
\*    if lead.Name is not None and lead.Name.strip()}
existing_names_of(existing) ==
    { Lower(Strip(existing[i].Name.v)) :
        i \in {j \in DOMAIN existing :
                 existing[j].Name # None /\ Strip(existing[j].Name.v) # <<>>} }

\* lead_data of an accepted item
lead_data(item, title, phone) ==
    [title |-> Str(title), phone |-> Str(phone),
     address |-> DictGetDefault(item, "address", EmptyStr),
     website |-> DictGetDefault(item, "website", EmptyStr),
     email |-> EmptyStr, instagram |-> EmptyStr,
     facebook |-> EmptyStr, linkedin |-> EmptyStr]

\* the tracking sets after an acceptance
track(set, key) == set \cup {key}

\* the loop over scraped, from item i on, with the tracking sets so far
RECURSIVE filter_loop(_, _, _, _, _)
filter_loop(scraped, i, phones, names, new_leads) ==
    IF i > Len(scraped)
    THEN [err |-> "none", leads |-> new_leads]
    ELSE LET item == scraped[i]
             phone == DictGet(item, "phone")
             rawtitle == DictGetDefault(item, "title", EmptyStr)
         IN  IF rawtitle = None
             THEN \* None.strip()
                  [err |-> "AttributeError", leads |-> <<>>]
             ELSE LET title == Strip(rawtitle.v)
                  IN  IF Truthy(phone) /\ title # <<>>
                      THEN LET cp == clean_phone(phone.v)
                               nn == Lower(title)
                           IN  IF cp \notin phones /\ nn \notin names
                               THEN filter_loop(scraped, i + 1,
                                        track(phones, cp), track(names, nn),
                                        Append(new_leads, lead_data(item, title, cp)))
                               ELSE filter_loop(scraped, i + 1, phones, names, new_leads)
                      ELSE filter_loop(scraped, i + 1, phones, names, new_leads)

\* _filter_new_leads(scraped, existing): the returned list, or the exception
filter_new_leads(scraped, existing) ==
    IF existing_names_raises(existing)
    THEN [err |-> "AttributeError", leads |-> <<>>]
    ELSE filter_loop(scraped, 1, existing_phones_of(existing),
                     existing_names_of(existing), <<>>)

(***************************************************************************)
(* WebsiteScraperService.scrape_website.  A page is a sequence of tokens   *)
(* [k, v]: k names the pattern the token matches ("email", "instagram",    *)
(* "facebook", "linkedin") or is "text"; v is the matched text (for a      *)
(* social link, the captured profile name: the optional scheme and www.    *)
(* and the company|in alternative are outside the capturing group).        *)
(***************************************************************************)
\* re.findall(pattern, content): the matches in page order
findall(kind, content) == SelectSeq(content, LAMBDA tok : tok.k = kind)

\* the url that is fetched
request_url(url) ==
    IF StartsWith(url, HttpScheme) \/ StartsWith(url, HttpsScheme)
    THEN url
    ELSE HttpsScheme \o url

EmptyBundle ==
    [email |-> None, instagram |-> None, facebook |-> None, linkedin |-> None]

\* the bundle extracted from a fetched page
extract(content) ==
    LET emails == findall("email", content)
        ig == findall("instagram", content)
        fb == findall("facebook", content)
        li == findall("linkedin", content)
    IN  [email |-> IF emails # <<>> THEN Str(emails[1].v) ELSE None,
         instagram |-> IF ig # <<>> THEN Str(InstagramPrefix \o ig[1].v) ELSE None,
         facebook |-> IF fb # <<>> THEN Str(FacebookPrefix \o fb[1].v) ELSE None,
         linkedin |-> IF li # <<>> THEN Str(LinkedinPrefix \o li[1].v) ELSE None]

\* scrape_website with the fetch outside the try block: a failed fetch raises
scrape_website_propagates(url, resp) ==
    IF resp.ok
    THEN [raised |-> FALSE, result |-> extract(resp.text)]
    ELSE [raised |-> TRUE, result |-> EmptyBundle]

\* scrape_website(url) when the fetch answers resp: every exception of the
\* fetch is caught, so the call never raises
scrape_website(url, resp) ==
    IF resp.ok
    THEN [raised |-> FALSE, result |-> extract(resp.text)]
    ELSE [raised |-> FALSE, result |-> EmptyBundle]

\* one iteration of _enrich_leads: the lead with the scraped fields
enrich_lead(lead, scraped_data) ==
    [lead EXCEPT !.email = OrEmpty(scraped_data.email),
                 !.instagram = OrEmpty(scraped_data.instagram),
                 !.facebook = OrEmpty(scraped_data.facebook),
                 !.linkedin = OrEmpty(scraped_data.linkedin)]

(***************************************************************************)
(* LinkVerificationService.  A probe is what requests.head answers with    *)
(* redirects followed: the exception it raised ("none" if it returned),    *)
(* the final status code and the final url.                                *)
(***************************************************************************)
\* sub in s
Contains(s, sub) ==
    \E i \in 0..(Len(s) - Len(sub)) : SubSeq(s, i + 1, i + Len(sub)) = sub

\* s.endswith(suffix)
EndsWith(s, suffix) ==
    Len(s) >= Len(suffix) /\ SubSeq(s, Len(s) - Len(suffix) + 1, Len(s)) = suffix

AccountsLogin == <<"a", "c", "c", "o", "u", "n", "t", "s", "/", "l", "o", "g", "i", "n">>

Login == <<"l", "o", "g", "i", "n">>

InstagramHome == <<"i", "n", "s", "t", "a", "g", "r", "a", "m", ".", "c", "o", "m", "/">>

FacebookHome == <<"f", "a", "c", "e", "b", "o", "o", "k", ".", "c", "o", "m", "/">>

\* the status code from which a response is an error
ErrorStatus == 400

Probe(exc, status_code, url) == [exc |-> exc, status_code |-> status_code, url |-> url]

\* not url or not url.strip()
blank(url) == IF url = <<>> THEN TRUE ELSE Strip(url) = <<>>

\* what a verifier call comes to: a boolean, after a probe or without one
Verdict(ret, probed) == [raised |-> FALSE, ret |-> ret, probed |-> probed]

\* the checks of a link on the answer of its probe, given the login marker
\* and the homepage suffix of the platform
verify_link(url, probe, login, home) ==
    IF blank(url)
    THEN Verdict(FALSE, FALSE)
    ELSE IF probe.exc # "none"
    THEN \* except Timeout / except RequestException
         Verdict(FALSE, TRUE)
    ELSE IF probe.status_code >= ErrorStatus
    THEN Verdict(FALSE, TRUE)
    ELSE IF Contains(Lower(probe.url), login)
    THEN Verdict(FALSE, TRUE)
    ELSE IF EndsWith(Lower(probe.url), home)
    THEN Verdict(FALSE, TRUE)
    ELSE Verdict(TRUE, TRUE)

\* verify_instagram(url) when the probe answers probe
verify_instagram(url, probe) == verify_link(url, probe, AccountsLogin, InstagramHome)

\* verify_facebook(url) when the probe answers probe
verify_facebook(url, probe) == verify_link(url, probe, Login, FacebookHome)

(***************************************************************************)
(* EmailValidationService.  mx is what dns.resolver.resolve answers for    *)
(* the domain: "records", "empty" (an answer without records), or the      *)
(* exception it raises.                                                    *)
(***************************************************************************)
Digits == {"0", "1", "2", "3", "4", "5", "6", "7", "8", "9"}

Letters == {UpperChars[i] : i \in DOMAIN UpperChars} \cup {LowerChars[i] : i \in DOMAIN LowerChars}

\* [a-zA-Z0-9._%+-]
LocalChars == Letters \cup Digits \cup {".", "_", "%", "+", "-"}

\* [a-zA-Z0-9.-]
DomainChars == Letters \cup Digits \cup {".", "-"}

\* [A-Z|a-z]
TldChars == Letters \cup {"|"}

\* the shortest top-level label: {2,}
MinTld == 2

AllIn(s, chars) == \A i \in DOMAIN s : s[i] \in chars

\* email_pattern.match(s): ^local+@domain+\.tld{2,}$
pattern_match(s) ==
    \E a \in DOMAIN s : \E p \in DOMAIN s :
        /\ 1 < a /\ a + 1 < p /\ p + MinTld <= Len(s)
        /\ s[a] = "@"
        /\ s[p] = "."
        /\ AllIn(SubSeq(s, 1, a - 1), LocalChars)
        /\ AllIn(SubSeq(s, a + 1, p - 1), DomainChars)
        /\ AllIn(SubSeq(s, p + 1, Len(s)), TldChars)

\* validate_format(email)
validate_format(email) ==
    IF blank(email) THEN FALSE ELSE pattern_match(Strip(email))

\* what a validator call comes to, and the domains it resolved
Validity(ret, resolved) == [raised |-> FALSE, ret |-> ret, resolved |-> resolved]

\* the exceptions of the resolver that validate_domain names
NamedDnsErrors == {"NXDOMAIN", "NoAnswer", "Timeout"}

\* validate_domain catching only the exceptions it names
validate_domain_named_only(email, mx) ==
    IF ~validate_format(email)
    THEN Validity(FALSE, <<>>)
    ELSE LET domain == Pieces(email, "@")[2]
         IN  IF mx = "records" THEN Validity(TRUE, <<domain>>)
             ELSE IF mx \in NamedDnsErrors \cup {"empty"}
             THEN Validity(FALSE, <<domain>>)
             ELSE [raised |-> TRUE, ret |-> FALSE, resolved |-> <<domain>>]

\* validate_domain(email) when the resolver answers mx
validate_domain(email, mx) ==
    IF ~validate_format(email)
    THEN Validity(FALSE, <<>>)
    ELSE LET domain == Pieces(email, "@")[2]
         IN  IF mx = "records" THEN Validity(TRUE, <<domain>>)
             ELSE IF mx = "empty" THEN Validity(FALSE, <<domain>>)
             ELSE IF mx \in NamedDnsErrors THEN Validity(FALSE, <<domain>>)
             ELSE \* except Exception
                  Validity(FALSE, <<domain>>)

\* validate_email(email, check_domain) when the resolver answers mx
validate_email(email, check_domain, mx) ==
    IF ~validate_format(email)
    THEN Validity(FALSE, <<>>)
    ELSE IF check_domain
    THEN validate_domain(email, mx)
    ELSE Validity(TRUE, <<>>)

(***************************************************************************)
(* GoogleSheetsService.  The sheet is the sequence of its rows; a row is   *)
(* a sequence of cells; the first row is the header.                       *)
(***************************************************************************)
\* worksheet.get_all_values(): the rows; an empty sheet reads as [] or [[]]
get_all_values(store) == IF store = <<>> THEN {<<>>, << <<>> >>} ELSE {store}

\* {headers[i]: row[i] if i < len(row) else None ...}[key], or Missing
lead_dict_get(headers, row, key) ==
    LET idx == {i \in DOMAIN headers : headers[i] = key}
    IN  IF idx = {} THEN Missing
        ELSE LET i == CHOOSE j \in idx : \A m \in idx : m <= j
             IN  IF i <= Len(row) THEN Str(row[i]) ELSE None

\* ExistingLead(**lead_dict): the declared fields, None by default
ExistingLead(headers, row) ==
    [f \in ExistingLeadFields |->
        LET x == lead_dict_get(headers, row, ExistingLeadAlias(f))
        IN  IF x = Missing THEN None ELSE x]

\* read_leads, from the rows that were read
read_leads(all_values) ==
    IF all_values = <<>>
    THEN <<>>
    ELSE [i \in 1..(Len(all_values) - 1) |->
             ExistingLead(all_values[1], all_values[i + 1])]

\* append_leads reading the sheet before it looks at its leads
nothing_to_append_never(leads) == FALSE

\* if not leads: return
nothing_to_append(leads) == leads = <<>>

\* a value as the cell it is written to
CellOf(x) == IF x.t = "str" THEN x.v ELSE <<>>

\* the row of one lead under the sheet's headers
lead_row(headers, lead) ==
    [i \in DOMAIN headers |->
        IF ScrapedKeyOf(headers[i]) = "none"
        THEN <<>>
        ELSE CellOf(lead[ScrapedKeyOf(headers[i])])]

\* values_to_append
values_to_append(headers, leads) ==
    [i \in DOMAIN leads |-> lead_row(headers, leads[i])]

\* whether append_leads writes the default header row first
needs_headers(all_values) ==
    IF all_values = <<>> THEN TRUE ELSE all_values[1] = <<>>

\* append_rows that writes from the first row on, over what is there
append_rows_overwrite(store, rows) ==
    rows \o SubSeq(store, Len(rows) + 1, Len(store))

\* worksheet.append_row / append_rows: the rows go after the last row
append_rows(store, rows) == store \o rows

\* a clear() that leaves the cells as they are
clear_nothing(store) == store

\* worksheet.clear(): no cell is left
clear(store) == <<>>

\* worksheet.update(rows): the rows are written from the first cell of the
\* first row on, over what is there; cells outside them stay
update(store, rows) ==
    [r \in 1..(IF Len(rows) > Len(store) THEN Len(rows) ELSE Len(store)) |->
        IF r > Len(rows) THEN store[r]
        ELSE IF r > Len(store) THEN rows[r]
        ELSE rows[r] \o SubSeq(store[r], Len(rows[r]) + 1, Len(store[r]))]

\* the early return of the maintenance operations:
\* not all_values or len(all_values) <= 1
nothing_to_do(all_values) ==
    IF all_values = <<>> THEN TRUE ELSE Len(all_values) <= 1

\* the first column compared as it stands
first_col_value_exact(row) == row[1]

\* first_col_value = row[0].strip().lower() if row[0] else ""
first_col_value(row) == IF row[1] # <<>> THEN Lower(Strip(row[1])) ELSE <<>>

\* the loop of remove_duplicates over data_rows, from row i on
RECURSIVE dedupe_loop(_, _, _, _, _)
dedupe_loop(data_rows, i, seen_names, unique_rows, duplicates_removed) ==
    IF i > Len(data_rows)
    THEN [unique_rows |-> unique_rows, duplicates_removed |-> duplicates_removed]
    ELSE LET row == data_rows[i]
         IN  IF row = <<>>
             THEN \* a completely empty row is skipped
                  dedupe_loop(data_rows, i + 1, seen_names, unique_rows,
                              duplicates_removed)
             ELSE IF first_col_value(row) = <<>>
             THEN dedupe_loop(data_rows, i + 1, seen_names,
                              Append(unique_rows, row), duplicates_removed)
             ELSE IF first_col_value(row) \notin seen_names
             THEN dedupe_loop(data_rows, i + 1,
                              seen_names \cup {first_col_value(row)},
                              Append(unique_rows, row), duplicates_removed)
             ELSE dedupe_loop(data_rows, i + 1, seen_names, unique_rows,
                              duplicates_removed + 1)

\* remove_duplicates writing the sheet back whatever it found
no_duplicates_never(duplicates_removed) == FALSE

\* if duplicates_removed == 0: return
no_duplicates(duplicates_removed) == duplicates_removed = 0

InstagramL == <<"i", "n", "s", "t", "a", "g", "r", "a", "m">>

FacebookL == <<"f", "a", "c", "e", "b", "o", "o", "k">>

\* the column located for a header name, compared lower-cased: the loop has no
\* break, so the last such column; 0 stands for None
find_col(headers, name) ==
    LET cols == {i \in DOMAIN headers : Lower(headers[i]) = name}
    IN  IF cols = {} THEN 0 ELSE CHOOSE i \in cols : \A j \in cols : j <= i

\* while len(row) < len(headers): row.append("")
pad_row(row, headers) ==
    [i \in 1..(IF Len(row) < Len(headers) THEN Len(headers) ELSE Len(row)) |->
        IF i <= Len(row) THEN row[i] ELSE <<>>]

\* clearing a cell together with the first cell of its row
clear_cell_and_first(row, col) == [row EXCEPT ![col] = <<>>, ![1] = <<>>]

\* row[col] = ""
clear_cell(row, col) == [row EXCEPT ![col] = <<>>]

\* the verifier method called for a link column
verify(name, url, probe) ==
    IF name = "verify_instagram"
    THEN verify_instagram(url, probe)
    ELSE verify_facebook(url, probe)

\* the check of one link column of a row, the probe of the link answering
\* probe: the row afterwards, the cells cleared and the verifier calls made
check_link(row, row_idx, col, name, probe) ==
    IF col # 0 /\ col <= Len(row)
    THEN IF Strip(row[col]) # <<>>
         THEN LET valid == verify(name, Strip(row[col]), probe).ret
              IN  [row |-> IF valid THEN row ELSE clear_cell(row, col),
                   cleaned |-> IF valid THEN 0 ELSE 1,
                   calls |-> <<[e |-> name, i |-> row_idx, url |-> Strip(row[col]),
                                resp |-> probe, ret |-> valid]>>]
         ELSE [row |-> row, cleaned |-> 0, calls |-> <<>>]
    ELSE [row |-> row, cleaned |-> 0, calls |-> <<>>]

\* if total_cleaned == 0: return
no_cleaned(cleaned) == cleaned = 0

(***************************************************************************)
(* LeadScraperWorkflow._wait_for_completion and _enrich_leads: the         *)
(* decisions of one loop iteration.                                        *)
(***************************************************************************)
\* the polling loop taking a success without a dataset as not finished yet
wait_step_poll_again(st) ==
    IF st.status = "SUCCEEDED" /\ st.defaultDatasetId # None
    THEN [k |-> "return", v |-> st.defaultDatasetId]
    ELSE [k |-> "sleep", v |-> None]

\* one iteration of the polling loop on the job data a status check returned
wait_step(st) ==
    IF st.status = "SUCCEEDED"
    THEN IF st.defaultDatasetId = None
         THEN [k |-> "raise", v |-> None]
         ELSE [k |-> "return", v |-> st.defaultDatasetId]
    ELSE [k |-> "sleep", v |-> None]

\* the loop of _enrich_leads stopping one lead short
enrich_done_early(i, leads) == i >= Len(leads)

\* the loop of _enrich_leads is over once every lead has been visited
enrich_done(i, leads) == i > Len(leads)

(***************************************************************************)
(* The inputs a run is checked on.                                         *)
(***************************************************************************)
Item(title, phone, address, website) ==
    [title |-> title, phone |-> phone, address |-> address, website |-> website]

\* scraped places: titles and phones that collide after normalisation, a null
\* title, an absent title, a null phone, a phone of separators only
ItemPool ==
    { Item(Str(<<" ", "A">>), Str(<<"+", "1">>), Str(<<"r", "d">>), Str(<<"w", ".", "c", "o">>)),
      Item(Str(<<"a">>), Str(<<"2">>), None, Str(HttpScheme \o <<"x">>)),
      Item(Str(<<"b">>), Str(<<"1", " ">>), Missing, Str(<<"y">>)),
      Item(None, Str(<<"3">>), Missing, Missing),
      Item(Missing, Str(<<"4">>), Missing, Str(<<"v">>)),
      Item(Str(<<"c">>), None, Missing, Missing),
      Item(Str(<<"d">>), Str(<<"+", " ">>), Missing, Missing),
      Item(Str(<<"e", " ">>), Str(<<"5">>), Str(<<>>), None) }

RECURSIVE SeqsUpTo(_, _)
SeqsUpTo(S, n) ==
    IF n = 0 THEN {<<>>}
    ELSE LET shorter == SeqsUpTo(S, n - 1)
         IN  shorter \cup {Append(q, x) : q \in shorter, x \in S}

\* the data rows a sheet may hold under a header
RowPool(headers) ==
    IF headers = DefaultHeaders
    THEN { <<<<"a">>, <<"1">>, <<>>, <<>>, <<>>, <<>>, <<>>, <<>>>>,
           <<<<"z">>, <<"9">>, <<>>, <<>>, <<>>, <<>>, <<>>, <<>>>> }
    ELSE { <<<<"a">>, <<"1">>>>, <<<<"z">>, <<>>>> }

\* a sheet written by an earlier version, whose name column is Business
LegacyHeaders == <<BusinessH, PhoneH>>

InitSheets ==
    {<<>>} \cup
    UNION { { <<h>> \o rows : rows \in SeqsUpTo(RowPool(h), MaxRows) } :
              h \in {DefaultHeaders, LegacyHeaders} }

\* the end-to-end scenario of the specification
AcmeName == <<"A", "c", "m", "e", " ", "P", "l", "u", "m", "b", "i", "n", "g">>

AcmePhoneStored == <<"4", "4", "1", "2", "3", "4", "5", "6", "7", "8", "9", "0">>

AcmePhoneScraped ==
    <<"+", "4", "4", " ", "1", "2", "3", "4", " ", "5", "6", "7", "8", "9", "0">>

NewCoName == <<"N", "e", "w", " ", "C", "o">>

NewCoPhoneScraped ==
    <<"+", "4", "4", " ", "9", "9", "9", "9", "9", "9", "9", "9", "9", "9">>

NewCoPhoneClean == <<"4", "4", "9", "9", "9", "9", "9", "9", "9", "9", "9", "9">>

NewCoWebsite == <<"n", "e", "w", "c", "o", ".", "c", "o", "m">>

NewCoEmail == <<"i", "n", "f", "o", "@", "n", "e", "w", "c", "o", ".", "c", "o", "m">>

ScenarioSheet ==
    <<DefaultHeaders,
      <<AcmeName, AcmePhoneStored, <<>>, <<>>, <<>>, <<>>, <<>>, <<>>>>>>

ScenarioDataset ==
    <<Item(Str(AcmeName), Str(AcmePhoneScraped), Missing, Missing),
      Item(Str(NewCoName), Str(NewCoPhoneScraped), Missing, Str(NewCoWebsite))>>

Tok(k, v) == [k |-> k, v |-> v]

\* a profile link of a page: the scheme and www. it is written with, the path
\* segment before the name (company or in, for linkedin) and the name
Link(k, pre, seg, v) == [k |-> k, v |-> v, pre |-> pre, seg |-> seg]

Company == <<"c", "o", "m", "p", "a", "n", "y">>

In == <<"i", "n">>

NewCoPage ==
    <<Tok("text", <<"m", "a", "i", "l", "t", "o", ":">>), Tok("email", NewCoEmail)>>

\* the page texts a fetch may return
PageContents ==
    { <<Tok("text", <<"h", "i">>)>>,
      <<Link("instagram", HttpScheme \o <<"w", "w", "w", ".">>, <<>>, <<"a", "l">>),
        Tok("email", <<"x", "@", "y", ".", "z", "z">>),
        Link("instagram", <<>>, <<>>, <<"b", "o">>),
        Link("facebook", <<"w", "w", "w", ".">>, <<>>, <<"f">>),
        Link("linkedin", HttpsScheme, Company, <<"l">>)>>,
      <<Link("linkedin", <<>>, In, <<"a", "l">>),
        Link("linkedin", <<>>, Company, <<"c">>)>>,
      NewCoPage }

FailedResp == [ok |-> FALSE, text |-> <<>>]

\* what a page fetch may answer: a transport or HTTP failure, or a page
Responses == {FailedResp} \cup {[ok |-> TRUE, text |-> c] : c \in PageContents}

DatasetId == Str(<<"d", "s">>)

\* the statuses of a remote job
NonTerminal == {"READY", "RUNNING"}

Terminal == {"SUCCEEDED", "FAILED", "ABORTED", "TIMED-OUT"}

(***************************************************************************)
(* The sheets a maintenance operation is checked on.                       *)
(***************************************************************************)
\* most data rows of a sheet under maintenance
MaxSheetRows == 3

\* a profile link as scrape_website writes it
IgUrl == InstagramPrefix \o <<"a", "l">>

FbUrl == FacebookPrefix \o <<"f">>

\* the bare homepage, held as a link
IgHome == InstagramPrefix

\* a data row under the default headers
SheetRow(name, instagram, facebook) ==
    <<name, <<"1">>, <<>>, <<>>, <<>>, instagram, facebook, <<>>>>

\* names that are equal once trimmed and lower-cased, an empty and a blank
\* name; link cells that are empty, blank or hold a link
SheetRowPool ==
    { SheetRow(<<"a">>, IgUrl, <<>>),
      SheetRow(<<" ", "A">>, <<>>, FbUrl),
      SheetRow(<<>>, IgUrl, FbUrl),
      SheetRow(<<"b">>, <<>>, <<>>),
      SheetRow(<<"a">>, <<>>, <<>>),
      SheetRow(<<" ">>, <<" ">>, <<>>) }

\* a sheet whose headers are in another case, and one without link columns
LowerHeaders == [i \in DOMAIN DefaultHeaders |-> Lower(DefaultHeaders[i])]

\* the sheets duplicate removal is checked on
DedupeSheets ==
    {<<>>}
    \cup { <<DefaultHeaders>> \o rows : rows \in SeqsUpTo(SheetRowPool, MaxSheetRows) }
    \cup { <<LegacyHeaders, <<<<"a">>, <<"1">>>>, <<<<"A">>, <<"2">>>>>>,
           <<LegacyHeaders, <<<<"a">>, <<"1">>>>, <<<<"b">>, <<"2">>>>>> }

\* most data rows of a sheet whose links are verified
MaxLinkRows == 2

\* rows with no link, one link, two links, a blank link cell, the homepage
LinkRowPool ==
    { SheetRow(<<"a">>, IgUrl, <<>>),
      SheetRow(<<>>, IgUrl, FbUrl),
      SheetRow(<<"b">>, <<>>, <<>>),
      SheetRow(<<" ">>, <<" ">>, FbUrl),
      SheetRow(<<"a">>, IgHome, <<>>) }

\* the sheets link verification is checked on
LinkSheets ==
    {<<>>}
    \cup { <<DefaultHeaders>> \o rows : rows \in SeqsUpTo(LinkRowPool, MaxLinkRows) }
    \cup { <<LowerHeaders, SheetRow(<<"a">>, IgUrl, FbUrl)>>,
           <<LegacyHeaders, <<<<"a">>, <<"1">>>>, <<<<"b">>, <<"2">>>>>> }

HomeWww == <<"h", "t", "t", "p", "s", ":", "/", "/", "w", "w", "w", ".", "i", "n", "s", "t", "a", "g", "r", "a", "m", ".", "c", "o", "m", "/">>

\* what the probe of a stored link may answer: a timeout, the link itself,
\* or a redirect to the homepage
ProbesOf(url) ==
    { Probe("Timeout", 0, <<>>), Probe("none", 200, url),
      Probe("none", 200, HomeWww) }

(***************************************************************************)
(* The inputs the verifier and the validator are called on directly.       *)
(***************************************************************************)
\* links: empty, blank, as the scraper writes them, without a scheme, and a
\* profile whose name holds the word login
UrlPool ==
    { <<>>, <<" ", " ">>, IgUrl, FbUrl, <<"i", "n", "s", "t", "a", "g", "r", "a", "m", ".", "c", "o", "m", "/", "a", "l">>,
      FacebookPrefix \o <<"l", "o", "g", "i", "n", "v", "s", "i">> }

\* final urls of a probe besides the link itself: the homepages, the login
\* pages, a profile page
FinalUrls ==
    { HomeWww, <<"H", "T", "T", "P", "S", ":", "/", "/", "W", "W", "W", ".", "I", "N", "S", "T", "A", "G", "R", "A", "M", ".", "C", "O", "M", "/">>, <<"h", "t", "t", "p", "s", ":", "/", "/", "w", "w", "w", ".", "f", "a", "c", "e", "b", "o", "o", "k", ".", "c", "o", "m", "/">>,
      <<"h", "t", "t", "p", "s", ":", "/", "/", "w", "w", "w", ".", "i", "n", "s", "t", "a", "g", "r", "a", "m", ".", "c", "o", "m", "/", "a", "c", "c", "o", "u", "n", "t", "s", "/", "l", "o", "g", "i", "n", "/", "?", "n", "e", "x", "t", "=", "/", "a", "l", "/">>,
      <<"h", "t", "t", "p", "s", ":", "/", "/", "w", "w", "w", ".", "f", "a", "c", "e", "b", "o", "o", "k", ".", "c", "o", "m", "/", "l", "o", "g", "i", "n", "/", "?", "n", "e", "x", "t", "=", "f">>,
      <<"h", "t", "t", "p", "s", ":", "/", "/", "w", "w", "w", ".", "i", "n", "s", "t", "a", "g", "r", "a", "m", ".", "c", "o", "m", "/", "a", "l", "/">> }

StatusCodes == {200, 399, 400, 404}

\* what requests.head may do for a link
ProbePool(url) ==
    { Probe("Timeout", 0, <<>>), Probe("RequestException", 0, <<>>) }
    \cup { Probe("none", st, final) :
             st \in StatusCodes, final \in FinalUrls \cup {url} }

\* addresses: empty, blank, without @, well formed, with a space before or
\* after, with a one-letter top-level label, with two @, with | in the label
EmailPool ==
    { <<>>, <<" ">>, <<"n", "o", "t", "-", "a", "n", "-", "e", "m", "a", "i", "l">>, <<"u", "@", "x", ".", "c", "o">>, <<" ", "u", "@", "x", ".", "c", "o">>, <<"u", "@", "x", ".", "c", "o", " ">>,
      <<"u", "@", "x", ".", "c">>, <<"a", "@", "b", "@", "c", ".", "d", "e">>, <<"U", "_", "1", "@", "X", "-", "y", ".", "C", "|">> }

\* what dns.resolver.resolve may do
MxAnswers == {"records", "empty", "NXDOMAIN", "NoAnswer", "Timeout", "NoNameservers"}

(***************************************************************************)
(* State.                                                                  *)
(***************************************************************************)
VARIABLES
    pc,               \* where run() is: start, poll, sleep, fetch, read,
                      \* filter, enrich, done, failed
    err,              \* the exception that ended run(), or "none"
    jobStatus,        \* status of the remote job ("NONE" before submission)
    defaultDatasetId, \* the dataset reference the remote job reports
    dataset,          \* the items of the remote dataset
    dataset_id,       \* run(): what _wait_for_completion returned
    scraped_data,     \* run(): what get_dataset returned
    existing_leads,   \* run(): what read_leads returned
    new_leads,        \* run(): what _filter_new_leads returned (the lead
                      \* dicts, which _enrich_leads updates in place)
    enriched_leads,   \* _enrich_leads: the list being built
    idx,              \* _enrich_leads: position of the loop in new_leads
    sheet,            \* the rows of the persisted worksheet
    sheet0,           \* the rows of the worksheet when the run started
    log,              \* the collaborator calls issued so far, in order
    values_read,      \* maintenance: the rows get_all_values returned
    rows_out,         \* maintenance: unique_rows / updated_rows being built
    total_cleaned     \* verify_and_clean_links: link cells cleared so far

vars ==
    <<pc, err, jobStatus, defaultDatasetId, dataset, dataset_id, scraped_data,
      existing_leads, new_leads, enriched_leads, idx, sheet, sheet0, log,
      values_read, rows_out, total_cleaned>>

\* the variables of run() that a maintenance operation does not touch
run_vars ==
    <<jobStatus, defaultDatasetId, dataset, dataset_id, scraped_data,
      existing_leads, new_leads, enriched_leads>>

\* the variables of the maintenance operations, which run() does not touch
maint_vars == <<values_read, rows_out, total_cleaned>>

NoResp == [ok |-> FALSE, text |-> <<>>]

\* a logged call: its name, the lead it is for (0 if none), the url and the
\* answer of a page fetch
Ev(e) == [e |-> e, i |-> 0, url |-> <<>>, resp |-> NoResp]

EvScrape(i, url, resp) == [e |-> "scrape", i |-> i, url |-> url, resp |-> resp]

Init ==
    /\ pc = "start"
    /\ err = "none"
    /\ jobStatus = "NONE"
    /\ defaultDatasetId \in {None, DatasetId}
    /\ dataset \in SeqsUpTo(ItemPool, MaxBatch) \cup {ScenarioDataset}
    /\ dataset_id = None
    /\ scraped_data = <<>>
    /\ existing_leads = <<>>
    /\ new_leads = <<>>
    /\ enriched_leads = <<>>
    /\ idx = 0
    /\ sheet \in InitSheets \cup {ScenarioSheet}
    /\ sheet0 = sheet
    /\ log = <<>>
    /\ values_read = <<>>
    /\ rows_out = <<>>
    /\ total_cleaned = 0

\* the failed call is made again instead of the exception ending run()
FailAndRetry(e) == pc' = pc /\ err' = e

\* run() ends with an exception
Fail(e) == pc' = "failed" /\ err' = e

(***************************************************************************)
(* The remote job.                                                         *)
(***************************************************************************)
\* the job service moves the submitted job on; a terminal status stays
RemoteStep ==
    /\ jobStatus \in NonTerminal
    /\ jobStatus' \in (IF jobStatus = "READY" THEN {"RUNNING"} ELSE {}) \cup Terminal
    /\ UNCHANGED <<pc, err, defaultDatasetId, dataset, dataset_id, scraped_data,
                   existing_leads, new_leads, enriched_leads, idx, sheet, sheet0,
                   log>>
    /\ UNCHANGED maint_vars

(***************************************************************************)
(* run().                                                                  *)
(***************************************************************************)
\* job_id = self.apify.start_scrape(request)
StartScrape ==
    /\ pc = "start"
    /\ log' = Append(log, Ev("start_scrape"))
    /\ \/ /\ pc' = "poll"
          /\ jobStatus' = "READY"
          /\ err' = err
       \/ /\ Fail("HTTPError")
          /\ jobStatus' = jobStatus
    /\ UNCHANGED <<defaultDatasetId, dataset, dataset_id, scraped_data,
                   existing_leads, new_leads, enriched_leads, idx, sheet, sheet0>>
    /\ UNCHANGED maint_vars

\* _wait_for_completion: one status check and what the loop does with it
PollStatus ==
    /\ pc = "poll"
    /\ \/ LET step == wait_step([status |-> jobStatus,
                                 defaultDatasetId |-> defaultDatasetId])
          IN  \/ /\ step.k = "return"
                 /\ dataset_id' = step.v
                 /\ pc' = "fetch"
                 /\ err' = err
                 /\ log' = Append(log, Ev("dataset_id"))
              \/ /\ step.k = "raise"
                 /\ Fail("ValueError")
                 /\ UNCHANGED <<dataset_id, log>>
              \/ /\ step.k = "sleep"
                 /\ pc' = "sleep"
                 /\ UNCHANGED <<err, dataset_id, log>>
       \/ /\ Fail("HTTPError")
          /\ UNCHANGED <<dataset_id, log>>
    /\ UNCHANGED <<jobStatus, defaultDatasetId, dataset, scraped_data,
                   existing_leads, new_leads, enriched_leads, idx, sheet, sheet0>>
    /\ UNCHANGED maint_vars

\* time.sleep(self.config.poll_interval), then the next iteration
Sleep ==
    /\ pc = "sleep"
    /\ pc' = "poll"
    /\ UNCHANGED <<err, jobStatus, defaultDatasetId, dataset, dataset_id,
                   scraped_data, existing_leads, new_leads, enriched_leads, idx,
                   sheet, sheet0, log>>
    /\ UNCHANGED maint_vars

\* scraped_data = self.apify.get_dataset(dataset_id)
GetDataset ==
    /\ pc = "fetch"
    /\ log' = Append(log, Ev("get_dataset"))
    /\ \/ /\ scraped_data' = dataset
          /\ pc' = "read"
          /\ err' = err
       \/ /\ Fail("HTTPError")
          /\ scraped_data' = scraped_data
    /\ UNCHANGED <<jobStatus, defaultDatasetId, dataset, dataset_id,
                   existing_leads, new_leads, enriched_leads, idx, sheet, sheet0>>
    /\ UNCHANGED maint_vars

\* existing_leads = self.sheets.read_leads()
ReadLeads ==
    /\ pc = "read"
    /\ log' = Append(log, Ev("read_leads"))
    /\ \/ \E all_values \in get_all_values(sheet) :
             /\ existing_leads' = read_leads(all_values)
             /\ pc' = "filter"
             /\ err' = err
       \/ /\ Fail("APIError")
          /\ existing_leads' = existing_leads
    /\ UNCHANGED <<jobStatus, defaultDatasetId, dataset, dataset_id, scraped_data,
                   new_leads, enriched_leads, idx, sheet, sheet0>>
    /\ UNCHANGED maint_vars

\* new_leads = self._filter_new_leads(scraped_data, existing_leads)
FilterNewLeads ==
    /\ pc = "filter"
    /\ log' = Append(log, Ev("filter_new_leads"))
    /\ LET r == filter_new_leads(scraped_data, existing_leads)
       IN  IF r.err = "none"
           THEN /\ new_leads' = r.leads
                /\ idx' = 1
                /\ pc' = "enrich"
                /\ err' = err
           ELSE /\ Fail(r.err)
                /\ UNCHANGED <<new_leads, idx>>
    /\ UNCHANGED <<jobStatus, defaultDatasetId, dataset, dataset_id, scraped_data,
                   existing_leads, enriched_leads, sheet, sheet0>>
    /\ UNCHANGED maint_vars

\* _enrich_leads: one iteration of the loop, with its page fetch if the lead
\* has a website
EnrichLead ==
    /\ pc = "enrich"
    /\ ~enrich_done(idx, new_leads)
    /\ LET lead == new_leads[idx]
       IN  IF Truthy(lead.website)
           THEN \E resp \in Responses :
                  LET r == scrape_website(lead.website.v, resp)
                  IN  /\ log' = Append(log, EvScrape(idx, request_url(lead.website.v), resp))
                      /\ IF r.raised
                         THEN /\ Fail("Exception")
                              /\ UNCHANGED <<new_leads, enriched_leads, idx>>
                         ELSE /\ new_leads' =
                                   [new_leads EXCEPT ![idx] = enrich_lead(lead, r.result)]
                              /\ enriched_leads' =
                                   Append(enriched_leads, enrich_lead(lead, r.result))
                              /\ idx' = idx + 1
                              /\ UNCHANGED <<pc, err>>
           ELSE /\ enriched_leads' = Append(enriched_leads, lead)
                /\ idx' = idx + 1
                /\ UNCHANGED <<pc, err, new_leads, log>>
    /\ UNCHANGED <<jobStatus, defaultDatasetId, dataset, dataset_id, scraped_data,
                   existing_leads, sheet, sheet0>>
    /\ UNCHANGED maint_vars

\* self.sheets.append_leads(enriched_leads): the whole call, each of its
\* worksheet calls succeeding or raising
AppendLeads ==
    /\ pc = "enrich"
    /\ enrich_done(idx, new_leads)
    /\ IF nothing_to_append(enriched_leads)
       THEN /\ pc' = "done"
            /\ log' = Append(log, Ev("append_leads"))
            /\ UNCHANGED <<err, sheet>>
       ELSE \/ /\ Fail("APIError")
               /\ log' = log \o <<Ev("append_leads"), Ev("get_all_values")>>
               /\ sheet' = sheet
            \/ \E all_values \in get_all_values(sheet) :
                 LET hdr == needs_headers(all_values)
                     headers == IF hdr THEN DefaultHeaders ELSE all_values[1]
                     calls == <<Ev("append_leads"), Ev("get_all_values")>>
                                \o (IF hdr THEN <<Ev("append_row")>> ELSE <<>>)
                     withHeader == IF hdr THEN append_rows(sheet, <<headers>>)
                                   ELSE sheet
                 IN  \/ /\ hdr
                        /\ Fail("APIError")
                        /\ log' = log \o calls
                        /\ sheet' = sheet
                     \/ /\ Fail("APIError")
                        /\ log' = log \o calls \o <<Ev("append_rows")>>
                        /\ sheet' = withHeader
                     \/ /\ pc' = "done"
                        /\ err' = err
                        /\ log' = log \o calls \o <<Ev("append_rows")>>
                        /\ sheet' = append_rows(withHeader,
                                        values_to_append(headers, enriched_leads))
    /\ UNCHANGED <<jobStatus, defaultDatasetId, dataset, dataset_id, scraped_data,
                   existing_leads, new_leads, enriched_leads, idx, sheet0>>
    /\ UNCHANGED maint_vars

Next ==
    \/ RemoteStep
    \/ StartScrape
    \/ PollStatus
    \/ Sleep
    \/ GetDataset
    \/ ReadLeads
    \/ FilterNewLeads
    \/ EnrichLead
    \/ AppendLeads

Spec == Init /\ [][Next]_vars

\* the scheduler keeps the running process going: every step of run() that
\* can be taken is taken; the remote job is under no such obligation
LiveSpec ==
    /\ Init
    /\ [][Next]_vars
    /\ WF_vars(StartScrape)
    /\ WF_vars(PollStatus)
    /\ WF_vars(Sleep)
    /\ WF_vars(GetDataset)
    /\ WF_vars(ReadLeads)
    /\ WF_vars(FilterNewLeads)
    /\ WF_vars(EnrichLead)
    /\ WF_vars(AppendLeads)

(***************************************************************************)
(* The maintenance operations of main(): --dedupe and --verify.  Each      *)
(* reads the sheet, computes the rows to keep and, if something changed,   *)
(* clears the sheet and writes the rows; the two worksheet calls of the    *)
(* write-back are two steps, each of which may raise.                      *)
(***************************************************************************)
MaintInit ==
    /\ pc \in {"dedupe", "verify"}
    /\ sheet \in (IF pc = "dedupe" THEN DedupeSheets ELSE LinkSheets)
    /\ err = "none"
    /\ jobStatus = "NONE"
    /\ defaultDatasetId = None
    /\ dataset = <<>>
    /\ dataset_id = None
    /\ scraped_data = <<>>
    /\ existing_leads = <<>>
    /\ new_leads = <<>>
    /\ enriched_leads = <<>>
    /\ idx = 0
    /\ sheet0 = sheet
    /\ log = <<>>
    /\ values_read = <<>>
    /\ rows_out = <<>>
    /\ total_cleaned = 0

\* sheets.remove_duplicates(), up to its write-back
RemoveDuplicates ==
    /\ pc = "dedupe"
    /\ log' = log \o <<Ev("remove_duplicates"), Ev("get_all_values")>>
    /\ \/ /\ Fail("APIError")
          /\ UNCHANGED <<values_read, rows_out>>
       \/ \E all_values \in get_all_values(sheet) :
            /\ values_read' = all_values
            /\ err' = err
            /\ IF nothing_to_do(all_values)
               THEN /\ pc' = "done"
                    /\ rows_out' = rows_out
               ELSE LET r == dedupe_loop(Tail(all_values), 1, {},
                                         <<all_values[1]>>, 0)
                    IN  /\ rows_out' = r.unique_rows
                        /\ pc' = IF no_duplicates(r.duplicates_removed)
                                 THEN "done" ELSE "clear"
    /\ UNCHANGED <<idx, sheet, sheet0, total_cleaned>>
    /\ UNCHANGED run_vars

\* self.worksheet.clear()
Clear ==
    /\ pc = "clear"
    /\ log' = Append(log, Ev("clear"))
    /\ \/ /\ sheet' = clear(sheet)
          /\ pc' = "update"
          /\ err' = err
       \/ /\ Fail("APIError")
          /\ sheet' = sheet
    /\ UNCHANGED <<idx, sheet0, values_read, rows_out, total_cleaned>>
    /\ UNCHANGED run_vars

\* self.worksheet.update(rows, value_input_option="USER_ENTERED")
Update ==
    /\ pc = "update"
    /\ log' = Append(log, Ev("update"))
    /\ \/ /\ sheet' = update(sheet, rows_out)
          /\ pc' = "done"
          /\ err' = err
       \/ /\ Fail("APIError")
          /\ sheet' = sheet
    /\ UNCHANGED <<idx, sheet0, values_read, rows_out, total_cleaned>>
    /\ UNCHANGED run_vars

\* sheets.verify_and_clean_links(verifier), up to its loop over the rows
VerifyRead ==
    /\ pc = "verify"
    /\ log' = log \o <<Ev("verify_and_clean_links"), Ev("get_all_values")>>
    /\ \/ /\ Fail("APIError")
          /\ UNCHANGED <<idx, values_read, rows_out>>
       \/ \E all_values \in get_all_values(sheet) :
            /\ values_read' = all_values
            /\ err' = err
            /\ IF nothing_to_do(all_values)
               THEN /\ pc' = "done"
                    /\ UNCHANGED <<idx, rows_out>>
               ELSE IF find_col(all_values[1], InstagramL) = 0
                         /\ find_col(all_values[1], FacebookL) = 0
               THEN /\ pc' = "done"
                    /\ UNCHANGED <<idx, rows_out>>
               ELSE /\ pc' = "verify_rows"
                    /\ idx' = 1
                    /\ rows_out' = <<all_values[1]>>
    /\ UNCHANGED <<sheet, sheet0, total_cleaned>>
    /\ UNCHANGED run_vars

\* one iteration of the loop over data_rows, with the probes of its links;
\* after the last row, the decision whether anything is written back
VerifyRow ==
    /\ pc = "verify_rows"
    /\ LET headers == values_read[1]
           padded == pad_row(values_read[idx + 1], headers)
           ig_col == find_col(headers, InstagramL)
           fb_col == find_col(headers, FacebookL)
       IN  \E ig_probe \in ProbesOf(IF ig_col = 0 THEN <<>> ELSE Strip(padded[ig_col])),
              fb_probe \in ProbesOf(IF fb_col = 0 THEN <<>> ELSE Strip(padded[fb_col])) :
             LET ig == check_link(padded, idx, ig_col, "verify_instagram", ig_probe)
                 fb == check_link(ig.row, idx, fb_col, "verify_facebook", fb_probe)
                 cleaned == total_cleaned + ig.cleaned + fb.cleaned
             IN  /\ rows_out' = Append(rows_out, fb.row)
                 /\ total_cleaned' = cleaned
                 /\ log' = log \o ig.calls \o fb.calls
                 /\ idx' = idx + 1
                 /\ pc' = IF idx + 1 < Len(values_read) THEN "verify_rows"
                          ELSE IF no_cleaned(cleaned) THEN "done"
                          ELSE "clear"
    /\ UNCHANGED <<err, sheet, sheet0, values_read>>
    /\ UNCHANGED run_vars


MaintNext ==
    \/ RemoveDuplicates
    \/ VerifyRead
    \/ VerifyRow
    \/ Clear
    \/ Update

MaintSpec == MaintInit /\ [][MaintNext]_vars

(***************************************************************************)
(* A maintenance operation with another writer on the same sheet: the      *)
(* append_rows call of a run()'s append_leads in another process, which    *)
(* may come between any two worksheet calls of the maintenance operation.  *)
(***************************************************************************)
\* most appends of the other writer during one maintenance operation
MaxOtherWrites == 1

\* the rows the other writer appends: a new name, and a name the sheet has
OtherRows ==
    { SheetRow(<<"z">>, <<>>, <<>>), SheetRow(<<"a">>, IgUrl, <<>>) }

\* sheets with a duplicate name, with links, with nothing to change
ConcSheets ==
    { <<>>,
      <<DefaultHeaders>>,
      <<DefaultHeaders, SheetRow(<<"b">>, <<>>, <<>>)>>,
      <<DefaultHeaders, SheetRow(<<"a">>, IgUrl, <<>>), SheetRow(<<"b">>, <<>>, <<>>)>>,
      <<DefaultHeaders, SheetRow(<<"a">>, IgUrl, <<>>), SheetRow(<<"a">>, IgUrl, <<>>)>> }

\* the logged append of the other writer, with the rows it wrote
EvAppend(rows) ==
    [e |-> "append_rows", i |-> 0, url |-> <<>>, resp |-> NoResp, rows |-> rows]

\* the appends the other writer has made
OtherWrites == Cardinality({k \in DOMAIN log : log[k].e = "append_rows"})

ConcInit ==
    /\ MaintInit
    /\ sheet \in ConcSheets

\* self.worksheet.append_rows(values_to_append, ...) in the other process
OtherAppend ==
    /\ pc \notin {"done", "failed"}
    /\ OtherWrites < MaxOtherWrites
    /\ \E row \in OtherRows :
          /\ sheet' = append_rows(sheet, <<row>>)
          /\ log' = Append(log, EvAppend(<<row>>))
    /\ UNCHANGED <<pc, err, idx, sheet0>>
    /\ UNCHANGED maint_vars
    /\ UNCHANGED run_vars

ConcNext ==
    \/ MaintNext
    \/ OtherAppend

ConcSpec == ConcInit /\ [][ConcNext]_vars

(***************************************************************************)
(* Direct calls of the verifier and of the validator: one call, on an      *)
(* input and an answer of the network; log holds the call.                 *)
(***************************************************************************)
FunInit ==
    /\ pc = "call"
    /\ err = "none"
    /\ jobStatus = "NONE"
    /\ defaultDatasetId = None
    /\ dataset = <<>>
    /\ dataset_id = None
    /\ scraped_data = <<>>
    /\ existing_leads = <<>>
    /\ new_leads = <<>>
    /\ enriched_leads = <<>>
    /\ idx = 0
    /\ sheet = <<>>
    /\ sheet0 = <<>>
    /\ log = <<>>
    /\ values_read = <<>>
    /\ rows_out = <<>>
    /\ total_cleaned = 0

\* verifier.verify_instagram(url)
CallVerifyInstagram ==
    /\ pc = "call"
    /\ \E url \in UrlPool : \E probe \in ProbePool(url) :
          LET r == verify_instagram(url, probe)
          IN  log' = <<[e |-> "verify_instagram", i |-> 0, url |-> url,
                        resp |-> probe, raised |-> r.raised, ret |-> r.ret,
                        probed |-> r.probed]>>
    /\ pc' = "returned"
    /\ UNCHANGED <<err, idx, sheet, sheet0>>
    /\ UNCHANGED run_vars
    /\ UNCHANGED maint_vars

\* verifier.verify_facebook(url)
CallVerifyFacebook ==
    /\ pc = "call"
    /\ \E url \in UrlPool : \E probe \in ProbePool(url) :
          LET r == verify_facebook(url, probe)
          IN  log' = <<[e |-> "verify_facebook", i |-> 0, url |-> url,
                        resp |-> probe, raised |-> r.raised, ret |-> r.ret,
                        probed |-> r.probed]>>
    /\ pc' = "returned"
    /\ UNCHANGED <<err, idx, sheet, sheet0>>
    /\ UNCHANGED run_vars
    /\ UNCHANGED maint_vars

\* email_validator.validate_email(email, check_domain)
CallValidateEmail ==
    /\ pc = "call"
    /\ \E email \in EmailPool, check_domain \in BOOLEAN, mx \in MxAnswers :
          LET r == validate_email(email, check_domain, mx)
          IN  log' = <<[e |-> "validate_email", i |-> 0, url |-> email,
                        resp |-> [check_domain |-> check_domain, mx |-> mx,
                                  format |-> validate_format(email)],
                        raised |-> r.raised, ret |-> r.ret,
                        resolved |-> r.resolved]>>
    /\ pc' = "returned"
    /\ UNCHANGED <<err, idx, sheet, sheet0>>
    /\ UNCHANGED run_vars
    /\ UNCHANGED maint_vars


FunNext ==
    \/ CallVerifyInstagram
    \/ CallVerifyFacebook
    \/ CallValidateEmail

FunSpec == FunInit /\ [][FunNext]_vars


(***************************************************************************)
(* Vocabulary of the properties.                                           *)
(***************************************************************************)
HasEv(name) == \E k \in DOMAIN log : log[k].e = name

CountEv(name) == Cardinality({k \in DOMAIN log : log[k].e = name})

\* _filter_new_leads has been called in this run
Resolved == HasEv("filter_new_leads")

\* ... and has returned its list
Returned == Resolved /\ err # "AttributeError"

\* the run is over
Ended == pc \in {"done", "failed"}

\* the data rows of the sheet the run started on, and its columns
DataRows0 == 2..Len(sheet0)

ColumnsNamed(hs) ==
    IF sheet0 = <<>> THEN {} ELSE {c \in DOMAIN sheet0[1] : sheet0[1][c] \in hs}

CellAt(r, c) == IF c <= Len(sheet0[r]) THEN sheet0[r][c] ELSE <<>>

\* normalized phones and names of the leads persisted before the run
PersistedPhones ==
    { clean_phone(CellAt(r, c)) : r \in DataRows0, c \in ColumnsNamed({PhoneH}) }

PersistedNames ==
    { Lower(Strip(CellAt(r, c))) : r \in DataRows0, c \in ColumnsNamed({NameH, BusinessH}) }

\* normalized phone and name of an accepted lead
NormPhone(lead) == clean_phone(lead.phone.v)

NormName(lead) == Lower(Strip(lead.title.v))

\* a candidate with a non-empty phone and a non-empty title
Valid(item) ==
    /\ Truthy(DictGet(item, "phone"))
    /\ item.title.t = "str"
    /\ Strip(item.title.v) # <<>>

CandPhone(item) == clean_phone(item.phone.v)

CandName(item) == Lower(Strip(item.title.v))

\* the accepted lead k was made from the candidate
MadeFrom(lead, item) ==
    /\ lead.title.v = Strip(item.title.v)
    /\ lead.phone.v = CandPhone(item)
    /\ lead.website = DictGetDefault(item, "website", EmptyStr)

NoNullTitle == \A j \in DOMAIN scraped_data : scraped_data[j].title # None

\* leads[k..] are made, in order, from candidates among items[j..]
RECURSIVE InInputOrder(_, _, _, _)
InInputOrder(leads, k, items, j) ==
    IF k > Len(leads) THEN TRUE
    ELSE IF j > Len(items) THEN FALSE
    ELSE IF Valid(items[j]) /\ MadeFrom(leads[k], items[j])
         THEN InInputOrder(leads, k + 1, items, j + 1)
         ELSE InInputOrder(leads, k, items, j + 1)

\* the end-to-end scenario, with every collaborator call answering
ScenarioRun ==
    /\ sheet0 = ScenarioSheet
    /\ dataset = ScenarioDataset
    /\ err \notin {"HTTPError", "ValueError", "APIError"}
    /\ \A k \in DOMAIN log :
          log[k].e = "scrape" => log[k].resp = [ok |-> TRUE, text |-> NewCoPage]

\* the calls on the worksheet
StoreCalls == {"read_leads", "append_leads", "get_all_values", "append_row", "append_rows"}

\* the collaborator calls of a run, in the order run() makes them
Stages ==
    <<"start_scrape", "dataset_id", "get_dataset", "read_leads",
      "filter_new_leads", "scrape", "append_leads", "get_all_values",
      "append_row", "append_rows">>

Rank(e) == CHOOSE r \in DOMAIN Stages : Stages[r] = e

\* the stages before enrichment, which a run goes through one after the other
Pipeline == SubSeq(Stages, 1, 5)

PipelineLog ==
    SelectSeq(log, LAMBDA ev : \E r \in DOMAIN Pipeline : Pipeline[r] = ev.e)

\* the page fetch for lead i failed
FetchFailed(i) ==
    \E k \in DOMAIN log : log[k].e = "scrape" /\ log[k].i = i /\ ~log[k].resp.ok

ContactHeaders == {EmailH, InstagramH, FacebookH, LinkedInH}

(***************************************************************************)
(* C1.  Whatever the batch and the existing leads, the resolver returns    *)
(* leads that are pairwise distinct in normalized phone and in normalized  *)
(* name, none of which has the normalized phone or the normalized name of  *)
(* a lead persisted before (stated for batches without a null title).      *)
(***************************************************************************)
C1_ReturnedLeadsUnique ==
    (Resolved /\ NoNullTitle) =>
        /\ Returned
        /\ \A a, b \in DOMAIN new_leads :
              a # b => /\ NormPhone(new_leads[a]) # NormPhone(new_leads[b])
                       /\ NormName(new_leads[a]) # NormName(new_leads[b])
        /\ \A a \in DOMAIN new_leads :
              /\ NormPhone(new_leads[a]) \notin PersistedPhones
              /\ NormName(new_leads[a]) \notin PersistedNames

(***************************************************************************)
(* C2.  A candidate whose normalized phone is that of a persisted lead     *)
(* while its name is new, or whose normalized name is that of a persisted  *)
(* lead while its phone is new, is rejected: the resolver returns a list   *)
(* that holds no lead made from it.                                        *)
(***************************************************************************)
C2_EitherKeyRejects ==
    (Resolved /\ NoNullTitle) =>
        \A j \in DOMAIN scraped_data :
            LET item == scraped_data[j]
            IN  (/\ Valid(item)
                 /\ (CandPhone(item) \in PersistedPhones)
                      # (CandName(item) \in PersistedNames))
                => /\ Returned
                   /\ \A k \in DOMAIN new_leads : ~MadeFrom(new_leads[k], item)

(***************************************************************************)
(* C3.  First occurrence wins: of two candidates of a batch that share a   *)
(* normalized phone or a normalized name, neither colliding with a         *)
(* persisted lead (the earlier being the first of the batch with either    *)
(* key), the earlier one is accepted and the later one is not, and the     *)
(* accepted leads keep the order of the input.                             *)
(***************************************************************************)
C3_FirstOccurrenceWins ==
    (Resolved /\ NoNullTitle) =>
        \A i, j \in DOMAIN scraped_data :
            LET x == scraped_data[i]
                y == scraped_data[j]
            IN  (/\ i < j
                 /\ Valid(x) /\ Valid(y)
                 /\ CandPhone(x) = CandPhone(y) \/ CandName(x) = CandName(y)
                 /\ \A h \in 1..(i - 1) :
                       Valid(scraped_data[h]) =>
                          /\ CandPhone(scraped_data[h]) # CandPhone(x)
                          /\ CandName(scraped_data[h]) # CandName(x)
                 /\ {CandPhone(x), CandPhone(y)} \cap PersistedPhones = {}
                 /\ {CandName(x), CandName(y)} \cap PersistedNames = {})
                => /\ Returned
                   /\ Cardinality({k \in DOMAIN new_leads :
                                     \/ MadeFrom(new_leads[k], x)
                                     \/ MadeFrom(new_leads[k], y)}) = 1
                   /\ \E k \in DOMAIN new_leads : MadeFrom(new_leads[k], x)
                   /\ InInputOrder(new_leads, 1, scraped_data, 1)

(***************************************************************************)
(* C4.  The resolver is total: on every batch (titles and phones absent,   *)
(* null or empty included) and every set of existing leads it returns, and *)
(* every lead it returns was made from a candidate that has a phone and a  *)
(* title.                                                                  *)
(***************************************************************************)
C4_ResolverTotal ==
    Resolved =>
        /\ Returned
        /\ \A k \in DOMAIN new_leads :
              \E j \in DOMAIN scraped_data :
                 Valid(scraped_data[j]) /\ MadeFrom(new_leads[k], scraped_data[j])

(***************************************************************************)
(* C5.  End to end: the sheet holds Acme Plumbing / 441234567890, the job  *)
(* returns [Acme Plumbing, New Co] and New Co's page holds                 *)
(* info@newco.com; no collaborator call fails.  Then the run completes     *)
(* and has appended exactly one row: New Co, 449999999999, info@newco.com. *)
(***************************************************************************)
C5_EndToEndAppendsNewCo ==
    (ScenarioRun /\ Ended) =>
        /\ pc = "done"
        /\ Len(sheet) = Len(sheet0) + 1
        /\ SubSeq(sheet, 1, Len(sheet0)) = sheet0
        /\ sheet[Len(sheet)][1] = NewCoName
        /\ sheet[Len(sheet)][2] = NewCoPhoneClean
        /\ sheet[Len(sheet)][5] = NewCoEmail

\* what holds in every state of a run, as to the dataset reference
C6_State ==
    /\ err = "ValueError" =>
          /\ pc = "failed"
          /\ jobStatus = "SUCCEEDED" /\ defaultDatasetId = None
          /\ ~HasEv("get_dataset")
          /\ \A k \in DOMAIN log : log[k].e \notin StoreCalls
          /\ sheet = sheet0
    /\ dataset_id # None =>
          /\ jobStatus = "SUCCEEDED"
          /\ defaultDatasetId # None
          /\ dataset_id = defaultDatasetId
    /\ HasEv("get_dataset") => dataset_id # None

(***************************************************************************)
(* C6.  A status check that reports SUCCEEDED without a dataset reference  *)
(* makes _wait_for_completion raise instead of polling again; the error    *)
(* ends run(), and that run fetches no dataset, reads no leads and appends *)
(* nothing.  A dataset reference is returned only from a check reporting   *)
(* SUCCEEDED together with that reference.                                 *)
(***************************************************************************)
C6_SuccessWithoutDatasetIsFatal ==
    /\ []C6_State
    /\ [][(pc = "poll" /\ jobStatus = "SUCCEEDED" /\ defaultDatasetId = None)
            => (pc' = "failed" /\ err' \in {"ValueError", "HTTPError"})]_vars
    /\ [][pc = "failed"
            => (pc' = "failed" /\ err' = err /\ log' = log /\ sheet' = sheet)]_vars

C6_Witness == pc = "failed" /\ err = "ValueError" /\ HasEv("start_scrape")

(***************************************************************************)
(* C7.  Once the remote job has reached SUCCEEDED, FAILED or ABORTED,      *)
(* which it keeps, the poller (scheduled fairly) eventually stops checking *)
(* the status: run() leaves _wait_for_completion.                          *)
(***************************************************************************)
C7_PollerLeavesOnTerminalStatus ==
    (jobStatus \in {"SUCCEEDED", "FAILED", "ABORTED"})
        ~> (pc \notin {"poll", "sleep"})

(***************************************************************************)
(* C8.  The stages of a run come in the fixed order submit, poll to the    *)
(* dataset reference, fetch the dataset, read the existing leads, resolve, *)
(* enrich, append, each once and none before the one before it is over;    *)
(* enrichment visits the accepted leads in order with at most one page     *)
(* fetch each; append_leads is called once, after every accepted lead has  *)
(* been enriched.                                                          *)
(***************************************************************************)
C8_StagesInOrder ==
    /\ \A k \in 1..(Len(log) - 1) :
          \/ Rank(log[k].e) < Rank(log[k + 1].e)
          \/ /\ log[k].e = "scrape" /\ log[k + 1].e = "scrape"
             /\ log[k].i < log[k + 1].i
    /\ \A r \in DOMAIN PipelineLog : PipelineLog[r].e = Pipeline[r]
    /\ HasEv("scrape") \/ HasEv("append_leads") => Len(PipelineLog) = Len(Pipeline)
    /\ HasEv("get_dataset") => dataset_id # None
    /\ \A k \in DOMAIN log :
          log[k].e = "scrape" =>
             /\ log[k].i \in DOMAIN new_leads
             /\ Truthy(new_leads[log[k].i].website)
    /\ HasEv("append_leads") =>
          /\ Len(enriched_leads) = Len(new_leads)
          /\ \A i \in DOMAIN new_leads :
                Truthy(new_leads[i].website) =>
                   Cardinality({k \in DOMAIN log :
                                  log[k].e = "scrape" /\ log[k].i = i}) = 1
    /\ pc = "done" => CountEv("append_leads") = 1

C8_Witness ==
    /\ pc = "done"
    /\ CountEv("scrape") = 2
    /\ HasEv("append_rows")
    /\ Len(sheet) = Len(sheet0) + 2

(***************************************************************************)
(* C9.  A run only appends: at every point of a run, ended normally or     *)
(* with an error, every row the sheet held before the run is still there,  *)
(* at its position and unchanged; and on a sheet that had a header, what   *)
(* the run adds is the rows of its leads, after the rows that were there.  *)
(***************************************************************************)
C9_RunOnlyAppends ==
    /\ Len(sheet) >= Len(sheet0)
    /\ SubSeq(sheet, 1, Len(sheet0)) = sheet0
    /\ (sheet0 # <<>> /\ sheet # sheet0) =>
          /\ Ended
          /\ Len(sheet) = Len(sheet0) + Len(enriched_leads)
          /\ \A k \in DOMAIN enriched_leads :
                sheet[Len(sheet0) + k] = lead_row(sheet0[1], enriched_leads[k])

C9_Witness ==
    /\ pc = "done"
    /\ sheet0 # <<>>
    /\ Len(sheet) > Len(sheet0)

(***************************************************************************)
(* C10.  A page fetch that fails for one accepted lead does not end the    *)
(* run and does not drop the lead: the lead gets empty email, instagram,   *)
(* facebook and linkedin, the loop goes on to the next lead, and a run     *)
(* that completes has appended one row for every lead the resolver         *)
(* accepted, in order, the row of a lead whose fetch failed having empty   *)
(* Email, Instagram, Facebook and LinkedIn cells.                          *)
(***************************************************************************)
C10_FetchFailureKeepsLead ==
    /\ \A i \in DOMAIN new_leads :
          FetchFailed(i) =>
             /\ idx > i
             /\ Len(enriched_leads) >= i
             /\ enriched_leads[i].email = EmptyStr
             /\ enriched_leads[i].instagram = EmptyStr
             /\ enriched_leads[i].facebook = EmptyStr
             /\ enriched_leads[i].linkedin = EmptyStr
             /\ pc = "failed" => err = "APIError"
    /\ (pc = "done" /\ new_leads # <<>>) =>
          LET base == IF sheet0 = <<>> THEN 1 ELSE Len(sheet0)
          IN  /\ Len(sheet) = base + Len(new_leads)
              /\ \A i \in DOMAIN new_leads :
                    LET row == sheet[base + i]
                    IN  \A c \in DOMAIN sheet[1] :
                           /\ sheet[1][c] = NameH => row[c] = new_leads[i].title.v
                           /\ sheet[1][c] = PhoneH => row[c] = new_leads[i].phone.v
                           /\ (FetchFailed(i) /\ sheet[1][c] \in ContactHeaders)
                                 => row[c] = <<>>

C10_Witness ==
    /\ pc = "done"
    /\ Len(new_leads) = 2
    /\ FetchFailed(1)
    /\ ~FetchFailed(2)
    /\ new_leads[2].email # EmptyStr
    /\ sheet[1] = DefaultHeaders
    /\ sheet[Len(sheet)][5] # <<>>
    /\ sheet[Len(sheet) - 1][5] = <<>>

\* the first column of a row of the sheet the operation started on, trimmed and
\* lower-cased
NormFirst(r) == Lower(Strip(sheet0[r][1]))

\* the data rows of that sheet that duplicate removal is to retain: those with
\* an empty first column, and the first row of each name
Retained ==
    { r \in DataRows0 :
        \/ NormFirst(r) = <<>>
        \/ \A q \in 2..(r - 1) : NormFirst(q) # NormFirst(r) }

\* remove_duplicates ran to its end and wrote the sheet back
DedupeRewritten ==
    HasEv("remove_duplicates") /\ HasEv("update") /\ pc = "done"

(***************************************************************************)
(* C11.  After remove_duplicates has rewritten the sheet, the first row is *)
(* the original header and the data rows are the retained original rows in *)
(* their original order: every row with an empty first column, and of the  *)
(* rows with the same first column (trimmed, case ignored) the first one   *)
(* and none of the later ones.                                             *)
(***************************************************************************)
C11_DedupeKeepsFirstOccurrences ==
    DedupeRewritten =>
        /\ sheet[1] = sheet0[1]
        /\ Len(sheet) = 1 + Cardinality(Retained)
        /\ \A r \in Retained :
              sheet[1 + Cardinality({q \in Retained : q <= r})] = sheet0[r]

C11_Witness ==
    /\ DedupeRewritten
    /\ Len(sheet0) = 4
    /\ Len(sheet) = 3
    /\ NormFirst(2) = NormFirst(4)
    /\ sheet0[2] # sheet0[4]
    /\ NormFirst(3) = <<>>
    /\ sheet[3] = sheet0[3]

\* no clear and no rewrite was issued and the sheet is as it was
NoWriteBack == ~HasEv("clear") /\ ~HasEv("update") /\ sheet = sheet0

\* two data rows of a table carry the same non-empty name (trimmed, case
\* ignored)
DuplicateNames(rows) ==
    \E i, j \in 2..Len(rows) :
        /\ i < j
        /\ Lower(Strip(rows[i][1])) # <<>>
        /\ Lower(Strip(rows[i][1])) = Lower(Strip(rows[j][1]))

\* the header of a table has neither an Instagram nor a Facebook column
NoLinkColumns(rows) ==
    IF rows = <<>> THEN TRUE
    ELSE \A c \in DOMAIN rows[1] : Lower(rows[1][c]) \notin {InstagramL, FacebookL}

VerifyCalls == {"verify_instagram", "verify_facebook"}

\* the verifier has reported a link invalid, which clears its cell
CellCleared ==
    \E k \in DOMAIN log : IF log[k].e \in VerifyCalls THEN ~log[k].ret ELSE FALSE

(***************************************************************************)
(* C12.  Write avoidance: remove_duplicates issues no clear and no rewrite *)
(* when the table it read has no duplicate names, and                      *)
(* verify_and_clean_links issues none when no cell was cleared or when the *)
(* header has neither an Instagram nor a Facebook column; the sheet is     *)
(* then left as it was.                                                    *)
(***************************************************************************)
C12_NoNeedlessWrite ==
    /\ (HasEv("remove_duplicates") /\ ~DuplicateNames(values_read)) => NoWriteBack
    /\ (HasEv("verify_and_clean_links")
          /\ (NoLinkColumns(values_read) \/ ~CellCleared)) => NoWriteBack

C12_Witness ==
    /\ pc = "done"
    /\ HasEv("verify_instagram")
    /\ HasEv("verify_facebook")
    /\ ~CellCleared
    /\ NoWriteBack

\* verify_and_clean_links ran to its end
VerifyDone == HasEv("verify_and_clean_links") /\ pc = "done"

\* the verifier method for a column, by its header; "none" for other columns
VerifierOf(header) ==
    IF Lower(header) = InstagramL THEN "verify_instagram"
    ELSE IF Lower(header) = FacebookL THEN "verify_facebook"
    ELSE "none"

\* the verifier reported the link of column c of data row r invalid
ReportedInvalid(r, c) ==
    \E k \in DOMAIN log :
        IF log[k].e \in VerifyCalls
        THEN /\ log[k].e = VerifierOf(sheet0[1][c])
             /\ log[k].i = r - 1
             /\ ~log[k].ret
        ELSE FALSE

ReportedValid(r, c) ==
    \E k \in DOMAIN log :
        IF log[k].e \in VerifyCalls
        THEN /\ log[k].e = VerifierOf(sheet0[1][c])
             /\ log[k].i = r - 1
             /\ log[k].ret
        ELSE FALSE

(***************************************************************************)
(* C13.  Link scrubbing changes nothing but invalid link cells: after      *)
(* verify_and_clean_links the sheet has the same header and the same data  *)
(* rows in the same order; an Instagram or Facebook cell is empty exactly  *)
(* when it was empty before or the verifier reported it invalid; every     *)
(* other cell, and every link cell the verifier reported valid, has its    *)
(* original value.                                                         *)
(***************************************************************************)
C13_ScrubClearsOnlyInvalidLinks ==
    VerifyDone =>
        /\ Len(sheet) = Len(sheet0)
        /\ sheet0 # <<>> => sheet[1] = sheet0[1]
        /\ \A r \in DataRows0 :
              /\ Len(sheet[r]) = Len(sheet0[r])
              /\ \A c \in DOMAIN sheet0[r] :
                    IF VerifierOf(sheet0[1][c]) # "none"
                    THEN /\ sheet[r][c] = <<>>
                            <=> (sheet0[r][c] = <<>> \/ ReportedInvalid(r, c))
                         /\ sheet[r][c] # <<>> => sheet[r][c] = sheet0[r][c]
                         /\ ReportedValid(r, c) => sheet[r][c] = sheet0[r][c]
                    ELSE sheet[r][c] = sheet0[r][c]

C13_Witness ==
    /\ VerifyDone
    /\ HasEv("update")
    /\ Len(sheet0) = 3
    /\ sheet0[2][6] = IgHome /\ sheet[2][6] = <<>> /\ sheet[2][1] = <<"a">>
    /\ sheet0[3][6] = IgUrl /\ sheet[3][6] = IgUrl /\ ReportedValid(3, 6)
    /\ sheet0[3][7] = FbUrl /\ sheet[3][7] = <<>> /\ ReportedInvalid(3, 7)

\* a blank or whitespace-only text
Blank(s) == \A i \in DOMAIN s : s[i] \in Whitespace

\* the path segments of scheme://host/segment/...?query
PathSegments(u) ==
    LET parts == Pieces(Before(u, "?"), "/")
    IN  SubSeq(parts, 4, Len(parts))

\* the url is a login page of the platform a verifier is for
IsLoginPage(e, u) ==
    LET segs == PathSegments(u)
    IN  IF e = "verify_instagram"
        THEN \E i \in 1..(Len(segs) - 1) :
                segs[i] = <<"a", "c", "c", "o", "u", "n", "t", "s">> /\ segs[i + 1] = <<"l", "o", "g", "i", "n">>
        ELSE \E i \in DOMAIN segs : segs[i] \in {<<"l", "o", "g", "i", "n">>, <<"l", "o", "g", "i", "n", ".", "p", "h", "p">>}

\* the url is the bare homepage of the platform a verifier is for
IsHomePage(e, u) ==
    LET home == IF e = "verify_instagram" THEN <<"i", "n", "s", "t", "a", "g", "r", "a", "m", ".", "c", "o", "m", "/">>
                ELSE <<"f", "a", "c", "e", "b", "o", "o", "k", ".", "c", "o", "m", "/">>
    IN  \E scheme \in {HttpScheme, HttpsScheme}, www \in {<<>>, <<"w", "w", "w", ".">>} :
           u = scheme \o www \o home

\* the probe completed, without timeout or transport failure
Completed(probe) == probe.exc = "none"

(***************************************************************************)
(* C14.  verify_instagram and verify_facebook never raise and apply the    *)
(* same rule: they return True exactly when the link is not blank, the     *)
(* probe completes, its final status code is below 400, and the final url, *)
(* lower-cased, neither has a login-page path segment nor is the bare      *)
(* homepage of the platform; a blank link gives False without a probe.     *)
(***************************************************************************)
C14_VerifierRule ==
    \A k \in DOMAIN log :
        log[k].e \in VerifyCalls =>
            /\ ~log[k].raised
            /\ log[k].ret <=>
                  /\ ~Blank(log[k].url)
                  /\ Completed(log[k].resp)
                  /\ log[k].resp.status_code < 400
                  /\ ~IsLoginPage(log[k].e, Lower(log[k].resp.url))
                  /\ ~IsHomePage(log[k].e, Lower(log[k].resp.url))
            /\ Blank(log[k].url) => ~log[k].probed

(***************************************************************************)
(* C15.  validate_email(email, check_domain) never raises and is True      *)
(* exactly when the format check passes and check_domain is false or the   *)
(* MX resolution of the domain returns at least one record; the resolution *)
(* is attempted only after the format check has passed, and every other    *)
(* outcome of it (not found, no answer, timeout, any other error) gives    *)
(* False.                                                                  *)
(***************************************************************************)
C15_ValidateEmail ==
    \A k \in DOMAIN log :
        log[k].e = "validate_email" =>
            /\ ~log[k].raised
            /\ log[k].ret <=>
                  /\ log[k].resp.format
                  /\ (~log[k].resp.check_domain \/ log[k].resp.mx = "records")
            /\ log[k].resolved # <<>> =>
                  /\ log[k].resp.format
                  /\ log[k].resp.check_domain
                  /\ Len(log[k].resolved) = 1
            /\ (log[k].resp.check_domain /\ log[k].resp.mx # "records") => ~log[k].ret

C15_Witness ==
    /\ Len(log) = 1
    /\ log[1].e = "validate_email"
    /\ log[1].url = <<"u", "@", "x", ".", "c", "o">>
    /\ log[1].resp.check_domain
    /\ log[1].resp.mx = "NoNameservers"
    /\ log[1].resolved = <<<<"x", ".", "c", "o">>>>
    /\ ~log[1].ret

\* the first token of a kind in a page, in page order
FirstOf(content, kind) ==
    content[CHOOSE i \in DOMAIN content :
               /\ content[i].k = kind
               /\ \A j \in 1..(i - 1) : content[j].k # kind]

HasMatch(content, kind) == \E i \in DOMAIN content : content[i].k = kind

\* the canonical form of a matched profile link:
\* https://<platform>.com/<matched profile path>
Canonical(tok) ==
    HttpsScheme \o
    (CASE tok.k = "instagram" -> <<"i", "n", "s", "t", "a", "g", "r", "a", "m">>
       [] tok.k = "facebook" -> <<"f", "a", "c", "e", "b", "o", "o", "k">>
       [] tok.k = "linkedin" -> <<"l", "i", "n", "k", "e", "d", "i", "n">>) \o
    <<".", "c", "o", "m", "/">> \o
    (IF tok.seg = <<>> THEN tok.v ELSE tok.seg \o <<"/">> \o tok.v)

\* the value claimed for a field of the lead enriched from a page
Extracted(content, kind) ==
    IF ~HasMatch(content, kind) THEN EmptyStr
    ELSE IF kind = "email" THEN Str(FirstOf(content, kind).v)
    ELSE Str(Canonical(FirstOf(content, kind)))

\* the fetches that returned a page
PageFetches == {k \in DOMAIN log : IF log[k].e = "scrape" THEN log[k].resp.ok ELSE FALSE}

(***************************************************************************)
(* C16.  For each of the four fields scrape_website returns the first      *)
(* match in page order, a social match in the canonical form               *)
(* https://<platform>.com/<matched profile path> whatever scheme or www.   *)
(* the page has, and an empty field where nothing matches; the same page   *)
(* gives the same bundle.                                                  *)
(***************************************************************************)
C16_FirstMatchCanonical ==
    /\ \A k \in PageFetches :
          LET lead == new_leads[log[k].i]
              page == log[k].resp.text
          IN  /\ lead.email = Extracted(page, "email")
              /\ lead.instagram = Extracted(page, "instagram")
              /\ lead.facebook = Extracted(page, "facebook")
              /\ lead.linkedin = Extracted(page, "linkedin")
    /\ \A k, m \in PageFetches :
          log[k].resp.text = log[m].resp.text =>
             LET a == new_leads[log[k].i]
                 b == new_leads[log[m].i]
             IN  <<a.email, a.instagram, a.facebook, a.linkedin>>
                   = <<b.email, b.instagram, b.facebook, b.linkedin>>

\* the calls that write to the worksheet
WriteCalls == {"append_row", "append_rows", "clear", "update"}

\* a call to the job service failed with a transport or HTTP error
C17_State ==
    err = "HTTPError" =>
        /\ pc = "failed"
        /\ CountEv("start_scrape") = 1
        /\ CountEv("get_dataset") <= 1
        /\ \A k \in DOMAIN log : log[k].e \notin WriteCalls
        /\ sheet = sheet0

(***************************************************************************)
(* C17.  No call is retried: when the job submission, a status check or    *)
(* the dataset fetch fails with a transport or HTTP error, the error ends  *)
(* run() at once, no call is issued afterwards (the failed one included),  *)
(* and the run has written nothing to the sheet.                           *)
(***************************************************************************)
C17_NoRetryAfterFailure ==
    /\ []C17_State
    /\ [][err' = "HTTPError" =>
            /\ pc' = "failed"
            /\ pc \in {"start", "poll", "fetch", "failed"}]_vars
    /\ [][err = "HTTPError" => UNCHANGED <<pc, err, log, sheet>>]_vars

C17_Witness ==
    /\ pc = "failed"
    /\ err = "HTTPError"
    /\ jobStatus = "RUNNING"
    /\ HasEv("start_scrape")
    /\ ~HasEv("get_dataset")

\* the calls that read the worksheet: read_leads (its get_all_values) and the
\* get_all_values of append_leads
ReadCalls == {"read_leads", "get_all_values"}

CountReads == Cardinality({k \in DOMAIN log : log[k].e \in ReadCalls})

(***************************************************************************)
(* C18.  The sheet is read exactly once in a run, by read_leads after the  *)
(* dataset has been fetched; enrichment and append do not read it again.   *)
(***************************************************************************)
C18_StoreReadOnce ==
    /\ CountReads <= 1
    /\ pc = "done" => CountReads = 1
    /\ \A k \in DOMAIN log :
          log[k].e \in ReadCalls =>
             /\ log[k].e = "read_leads"
             /\ k > 1
             /\ log[k - 1].e = "get_dataset"

(***************************************************************************)
(* C18, amended.  read_leads reads the sheet once, right after the dataset *)
(* has been fetched; enrichment does not read it; append_leads reads it    *)
(* once more (for the header row) exactly when there is a lead to append.  *)
(***************************************************************************)
C18_ReadOnceThenHeaderRead ==
    /\ CountEv("read_leads") <= 1
    /\ CountEv("get_all_values") <= 1
    /\ \A k \in DOMAIN log :
          /\ log[k].e = "read_leads" => (k > 1 /\ log[k - 1].e = "get_dataset")
          /\ log[k].e = "get_all_values" =>
                /\ k > 1
                /\ log[k - 1].e = "append_leads"
                /\ enriched_leads # <<>>
          /\ log[k].e = "scrape" =>
                \A m \in (k + 1)..Len(log) : log[m].e # "read_leads"
    /\ HasEv("append_leads") =>
          /\ CountEv("read_leads") = 1
          /\ HasEv("get_all_values") <=> enriched_leads # <<>>

C18_Witness ==
    /\ pc = "done"
    /\ HasEv("scrape")
    /\ CountEv("read_leads") = 1
    /\ CountEv("get_all_values") = 1
    /\ sheet0 # <<>>

\* a maintenance operation of main() has been entered
MaintenanceRun == HasEv("remove_duplicates") \/ HasEv("verify_and_clean_links")

\* the complete new rows, once the operation has built them and begun to
\* write them back
NewRowSet == update(clear(sheet0), rows_out)

(***************************************************************************)
(* C19.  At every point of remove_duplicates or verify_and_clean_links,    *)
(* a failed or interrupted call included, the sheet holds either the       *)
(* complete rows that were read or the complete new rows, never an empty   *)
(* or partly written table.                                                *)
(***************************************************************************)
C19_AtomicWriteBack ==
    MaintenanceRun =>
        \/ sheet = sheet0
        \/ /\ HasEv("update")
           /\ sheet = NewRowSet

\* the resolver run again on its own output, against the leads it was given
ResolvedAgain == filter_new_leads(new_leads, existing_leads)

\* the same lead as to its identity keys
SameLead(x, y) == x.title = y.title /\ x.phone = y.phone

(***************************************************************************)
(* C20.  Every lead returned by _filter_new_leads has a non-empty          *)
(* normalized phone and a non-empty trimmed title, and the resolver run on *)
(* its own output against the same existing leads accepts every one of     *)
(* them again.                                                             *)
(***************************************************************************)
C20_AcceptedSetIsFixedPoint ==
    Returned =>
        /\ \A k \in DOMAIN new_leads :
              /\ new_leads[k].phone.t = "str"
              /\ new_leads[k].phone.v # <<>>
              /\ new_leads[k].phone.v = clean_phone(new_leads[k].phone.v)
              /\ new_leads[k].title.t = "str"
              /\ new_leads[k].title.v # <<>>
              /\ new_leads[k].title.v = Strip(new_leads[k].title.v)
        /\ ResolvedAgain.err = "none"
        /\ Len(ResolvedAgain.leads) = Len(new_leads)
        /\ \A k \in DOMAIN new_leads :
              SameLead(ResolvedAgain.leads[k], new_leads[k])

\* the appends of the other writer, in the order they were made
OtherAppends == SelectSeq(log, LAMBDA ev : ev.e = "append_rows")

\* the position in the log of the operation's read and of its clear()
ReadAt == CHOOSE k \in DOMAIN log : log[k].e = "get_all_values"

ClearAt == CHOOSE k \in DOMAIN log : log[k].e = "clear"

\* the append logged at k came after the operation's read and before its
\* write-back
AddedBetween(k) ==
    /\ log[k].e = "append_rows"
    /\ HasEv("get_all_values") /\ ReadAt < k
    /\ HasEv("clear") => k < ClearAt

\* the operation has written its rows back and returned
WrittenBack == pc = "done" /\ HasEv("update")

\* the row is in the sheet
Present(row) == \E r \in DOMAIN sheet : sheet[r] = row

(***************************************************************************)
(* C21.  A row that another writer adds after remove_duplicates or         *)
(* verify_and_clean_links has read the rows and before its write-back is   *)
(* still in the sheet after the write-back.                                *)
(***************************************************************************)
C21_AddedRowSurvivesWriteBack ==
    WrittenBack =>
        \A k \in DOMAIN log : AddedBetween(k) => Present(log[k].rows[1])

(***************************************************************************)
(* C21, amended.  The write-back replaces the whole sheet by the rows      *)
(* computed from the one read: after it the sheet is exactly those rows,   *)
(* so a row added between the read and the write-back has no row of its    *)
(* own left.  The added rows stay, after the rows the sheet had, when the  *)
(* operation returns without a write-back.                                 *)
(***************************************************************************)
C21_WriteBackReplacesSheet ==
    /\ (/\ WrittenBack
        /\ \A k \in DOMAIN log : log[k].e = "append_rows" => k < ClearAt)
       => /\ sheet = rows_out
          /\ Len(sheet) <= Len(values_read)
          /\ \A k \in DOMAIN log :
                AddedBetween(k) =>
                   (Present(log[k].rows[1]) =>
                       \E r \in DOMAIN values_read :
                          pad_row(values_read[r], values_read[1]) = log[k].rows[1])
    /\ (pc = "done" /\ ~HasEv("clear"))
       => /\ Len(sheet) = Len(sheet0) + Len(OtherAppends)
          /\ \A r \in DOMAIN sheet0 : sheet[r] = sheet0[r]
          /\ \A j \in DOMAIN OtherAppends :
                sheet[Len(sheet0) + j] = OtherAppends[j].rows[1]

C21_Witness ==
    /\ WrittenBack
    /\ \E k \in DOMAIN log :
          /\ AddedBetween(k)
          /\ ~Present(log[k].rows[1])
    /\ sheet = rows_out

=============================================================================
